---- MODULE Spec2Model ----
(***************************************************************************)
(* OT5 / PSE-4 private sector contribution tool (src/app.py).              *)
(*                                                                         *)
(* Three parts of the program are modelled:                                *)
(*   - extract_speaker_hours / parse_time, on agenda texts given as        *)
(*     sequences of characters (SpecHours);                                *)
(*   - calculate_airfare over the economy and region tables (SpecAirfare); *)
(*   - one run of the Streamlit script, sections A to D and the submit     *)
(*     loop that POSTs one record per selected engagement (Spec).          *)
(*                                                                         *)
(* Units.  Money is an integer number of mills (1/1000 USD), presentation  *)
(* hours are quarter hours, clock times and durations are minutes, the     *)
(* value returned by extract_speaker_hours is in hundredths of an hour,    *)
(* dates are day ordinals.  A character is a one-character string; the     *)
(* en-dash is the character named "ndash".                                 *)
(***************************************************************************)
EXTENDS Integers, Sequences, FiniteSets, TLC

VARIABLES
    pc,                    \* position of the run
    \* ---- extract_speaker_hours(text, speaker)
    text, speaker, matches, i, total, result,
    \* ---- calculate_airfare(origin_economy, host_economy)
    firm_economy_name, host_economy, airfare_auto,
    \* ---- script globals, sections A to D
    presentation_hours, category, labor_value,
    airfare, travel_start, travel_end, lodging_rate, mie_rate,
    days, nights, travel_total,
    selected_engagements, total_value, per_engagement_value,
    \* ---- submit loop and the Airtable table it writes
    idx, records, banner

hoursVars   == <<text, speaker, matches, i, total, result>>
airfareVars == <<firm_economy_name, host_economy, airfare_auto>>
laborVars   == <<presentation_hours, category, labor_value>>
travelVars  == <<airfare, travel_start, travel_end, lodging_rate, mie_rate,
                 days, nights, travel_total>>
allocVars   == <<selected_engagements, total_value, per_engagement_value>>
submitVars  == <<idx, records, banner>>
vars == <<pc, hoursVars, airfareVars, laborVars, travelVars, allocVars, submitVars>>

\* Python's None, and the value of a name not yet assigned.
None == "None"

-----------------------------------------------------------------------------
(***************************************************************************)
(* Characters and strings                                                  *)
(***************************************************************************)

Digit == {"0", "1", "2", "3", "4", "5", "6", "7", "8", "9"}

DigitVal(c) ==
    CASE c = "0" -> 0 [] c = "1" -> 1 [] c = "2" -> 2 [] c = "3" -> 3
      [] c = "4" -> 4 [] c = "5" -> 5 [] c = "6" -> 6 [] c = "7" -> 7
      [] c = "8" -> 8 [] c = "9" -> 9

\* \s of the regular expressions
IsSpace(c) == c \in {" ", "\t", "\n"}

\* str.lower() on one character, over the letters the agenda texts use
LowerChar(c) ==
    CASE c = "A" -> "a" [] c = "B" -> "b" [] c = "E" -> "e" [] c = "H" -> "h"
      [] c = "I" -> "i" [] c = "J" -> "j" [] c = "M" -> "m" [] c = "N" -> "n"
      [] c = "O" -> "o" [] c = "P" -> "p" [] c = "R" -> "r" [] c = "S" -> "s"
      [] c = "T" -> "t"
      [] OTHER -> c

Lower(s) == [k \in 1..Len(s) |-> LowerChar(s[k])]

\* the character at position p (1-based), "" past the end
CharAt(s, p) == IF p >= 1 /\ p <= Len(s) THEN s[p] ELSE ""

\* Python's  needle in haystack
Contains(haystack, needle) ==
    \E k \in 1..(Len(haystack) - Len(needle) + 1) :
        SubSeq(haystack, k, k + Len(needle) - 1) = needle

\* the first position >= p that holds no whitespace: what a greedy \s* leaves
RECURSIVE SkipSpace(_, _)
SkipSpace(s, p) == IF IsSpace(CharAt(s, p)) THEN SkipSpace(s, p + 1) ELSE p

\* str.strip()
RECURSIVE StripLeft(_)
StripLeft(s) == IF Len(s) > 0 /\ IsSpace(s[1]) THEN StripLeft(Tail(s)) ELSE s
RECURSIVE StripRight(_)
StripRight(s) ==
    IF Len(s) > 0 /\ IsSpace(s[Len(s)])
    THEN StripRight(SubSeq(s, 1, Len(s) - 1)) ELSE s
Strip(s) == StripRight(StripLeft(s))

-----------------------------------------------------------------------------
(***************************************************************************)
(* The scan pattern of extract_speaker_hours                               *)
(*   (\d{1,2}:\d{2}\s*(?:am|pm))\s*[ndash\-]\s*(\d{1,2}:\d{2}\s*(?:am|pm)) *)
(* with re.IGNORECASE.  Positions are 1-based; an end position is the      *)
(* position after the last character matched; 0 is "no match".             *)
(***************************************************************************)

\* \d{1,2}:\d{2}\s*(?:am|pm) at position p: the end position, or 0
MatchTimeAt(s, p) ==
    LET nd == IF CharAt(s, p) \in Digit /\ CharAt(s, p + 1) \in Digit
                 /\ CharAt(s, p + 2) = ":" THEN 2
              ELSE IF CharAt(s, p) \in Digit /\ CharAt(s, p + 1) = ":" THEN 1
              ELSE 0
        q  == p + nd + 1
        r  == SkipSpace(s, q + 2)
    IN  IF nd > 0 /\ CharAt(s, q) \in Digit /\ CharAt(s, q + 1) \in Digit
           /\ LowerChar(CharAt(s, r)) \in {"a", "p"}
           /\ LowerChar(CharAt(s, r + 1)) = "m"
        THEN r + 2 ELSE 0

NoMatch == [start |-> 0, g1end |-> 0, g2start |-> 0, end |-> 0]

\* the whole pattern at position p: the match (span and the two groups)
MatchRangeAt(s, p) ==
    LET e1 == MatchTimeAt(s, p)
        d  == SkipSpace(s, e1)
        s2 == SkipSpace(s, d + 1)
        e2 == MatchTimeAt(s, s2)
    IN  IF e1 > 0 /\ CharAt(s, d) \in {"-", "ndash"} /\ e2 > 0
        THEN [start |-> p, g1end |-> e1, g2start |-> s2, end |-> e2]
        ELSE NoMatch

\* list(re.finditer(pattern, text)): leftmost matches, none overlapping
RECURSIVE FindIterFrom(_, _)
FindIterFrom(s, p) ==
    IF p > Len(s) THEN <<>>
    ELSE LET m == MatchRangeAt(s, p)
         IN  IF m.end > 0 THEN <<m>> \o FindIterFrom(s, m.end)
             ELSE FindIterFrom(s, p + 1)

FindIter(s) == FindIterFrom(s, 1)

\* m.groups()
Group1(s, m) == SubSeq(s, m.start, m.g1end - 1)
Group2(s, m) == SubSeq(s, m.g2start, m.end - 1)

-----------------------------------------------------------------------------
(***************************************************************************)
(* parse_time: datetime.strptime(t.strip().lower(), "%I:%M %p").           *)
(* strptime compiles the format to                                         *)
(*   (1[0-2]|0[1-9]|[1-9]):([0-5]\d|\d)\s+(am|pm)                          *)
(* (a blank of the format is \s+) and raises ValueError when the string    *)
(* does not match it or text remains after the match.                      *)
(***************************************************************************)

ValueError == -1

\* the lengths the %I alternatives can take at the head of s, in regex order
HourLens(s) ==
    (IF (CharAt(s, 1) = "1" /\ CharAt(s, 2) \in {"0", "1", "2"})
        \/ (CharAt(s, 1) = "0" /\ CharAt(s, 2) \in (Digit \ {"0"}))
     THEN <<2>> ELSE <<>>)
    \o (IF CharAt(s, 1) \in (Digit \ {"0"}) THEN <<1>> ELSE <<>>)

\* the lengths the %M alternatives can take at position p, in regex order
MinuteLens(s, p) ==
    (IF CharAt(s, p) \in {"0", "1", "2", "3", "4", "5"} /\ CharAt(s, p + 1) \in Digit
     THEN <<2>> ELSE <<>>)
    \o (IF CharAt(s, p) \in Digit THEN <<1>> ELSE <<>>)

\* the rest of the format after %I of length hl and %M of length ml
TimeTailOk(s, hl, ml) ==
    LET p == hl + 2 + ml
        r == SkipSpace(s, p)
    IN  /\ CharAt(s, hl + 1) = ":"
        /\ r > p
        /\ CharAt(s, r) \in {"a", "p"} /\ CharAt(s, r + 1) = "m"
        /\ r + 1 = Len(s)

Number(s, from, len) ==
    IF len = 2 THEN 10 * DigitVal(s[from]) + DigitVal(s[from + 1]) ELSE DigitVal(s[from])

\* minutes after midnight of the parsed time, or ValueError
parse_time(t) ==
    LET s  == Lower(Strip(t))
        hs == HourLens(s)
        ok == { <<a, b>> \in (1..Len(hs)) \X (1..2) :
                  /\ b <= Len(MinuteLens(s, hs[a] + 2))
                  /\ TimeTailOk(s, hs[a], MinuteLens(s, hs[a] + 2)[b]) }
    IN  IF ok = {} THEN ValueError
        ELSE LET first == CHOOSE x \in ok :
                            \A y \in ok : x[1] < y[1] \/ (x[1] = y[1] /\ x[2] <= y[2])
                 hl == hs[first[1]]
                 ml == MinuteLens(s, hl + 2)[first[2]]
                 h  == Number(s, 1, hl)
                 mi == Number(s, hl + 2, ml)
                 pm == CharAt(s, Len(s) - 1) = "p"
                 h24 == IF pm THEN (IF h = 12 THEN 12 ELSE h + 12)
                              ELSE (IF h = 12 THEN 0 ELSE h)
             IN  60 * h24 + mi

\* (e - s).seconds of a timedelta, in minutes: the difference modulo one day
TimedeltaMinutes(s, e) == (e - s) % 1440

\* round(minutes / 60, 2), in hundredths of an hour.  100*m/60 = 5m/3 is never
\* half way between two integers, so the nearest integer is unique.
RoundHours(m) == (10 * m + 3) \div 6

-----------------------------------------------------------------------------
(***************************************************************************)
(* extract_speaker_hours, one loop iteration per step                      *)
(***************************************************************************)

\* text[block_start:block_end].lower() of the k-th match
Block(s, ms, k) ==
    LET block_start == ms[k].end
        block_end   == IF k + 1 <= Len(ms) THEN ms[k + 1].start ELSE Len(s) + 1
    IN  Lower(SubSeq(s, block_start, block_end - 1))

SpeakerInBlock(s, sp, ms, k) == Contains(Block(s, ms, k), Lower(sp))

\* total = 0.0; matches = list(re.finditer(...))
HoursScan ==
    /\ pc = "hours_call"
    /\ matches' = FindIter(text)
    /\ total' = 0
    /\ i' = 1
    /\ pc' = "hours_loop"
    /\ UNCHANGED <<text, speaker, result>>
    /\ UNCHANGED <<airfareVars, laborVars, travelVars, allocVars, submitVars>>

\* one iteration of  for i, m in enumerate(matches)
HoursIterate ==
    /\ pc = "hours_loop"
    /\ i <= Len(matches)
    /\ LET m == matches[i]
           s == parse_time(Group1(text, m))
           e == parse_time(Group2(text, m))
       IN  IF ~SpeakerInBlock(text, speaker, matches, i)
           THEN /\ i' = i + 1
                /\ UNCHANGED <<pc, total>>
           ELSE IF s = ValueError \/ e = ValueError
           THEN /\ pc' = "hours_raised"          \* ValueError leaves the function
                /\ UNCHANGED <<i, total>>
           ELSE /\ total' = total + TimedeltaMinutes(s, e)
                /\ i' = i + 1
                /\ UNCHANGED pc
    /\ UNCHANGED <<text, speaker, matches, result>>
    /\ UNCHANGED <<airfareVars, laborVars, travelVars, allocVars, submitVars>>

\* return round(total, 2)
HoursReturn ==
    /\ pc = "hours_loop"
    /\ i > Len(matches)
    /\ result' = RoundHours(total)
    /\ pc' = "hours_done"
    /\ UNCHANGED <<text, speaker, matches, i, total>>
    /\ UNCHANGED <<airfareVars, laborVars, travelVars, allocVars, submitVars>>

-----------------------------------------------------------------------------
(***************************************************************************)
(* Agenda texts given to extract_speaker_hours: up to MaxMarkers segments, *)
(* each a time range (two time tokens around a separator) followed by the  *)
(* free text of the session.                                               *)
(***************************************************************************)

MaxMarkers == 2

Tok1000   == <<"1", "0", ":", "0", "0">>                       \* 10:00
Tok1100   == <<"1", "1", ":", "0", "0">>                       \* 11:00
Tok1030am == <<"1", "0", ":", "3", "0", " ", "a", "m">>        \* 10:30 am
Tok0100pm == <<"1", ":", "0", "0", " ", "p", "m">>             \* 1:00 pm
Tok1215PM == <<"1", "2", ":", "1", "5", " ", "P", "M">>        \* 12:15 PM
Tok0200pm == <<"2", ":", "0", "0", "p", "m">>                  \* 2:00pm
Tok1300pm == <<"1", "3", ":", "0", "0", " ", "p", "m">>        \* 13:00 pm
Tok0975am == <<"9", ":", "7", "5", " ", "a", "m">>             \* 9:75 am

TimeTokens ==
    {Tok1000, Tok1100, Tok1030am, Tok0100pm, Tok1215PM, Tok0200pm, Tok1300pm, Tok0975am}

Separators == { <<"-">>, <<" ", "ndash", " ">> }

JaneSmith == <<"J", "a", "n", "e", " ", "S", "m", "i", "t", "h">>
Bob       == <<"b", "o", "b">>
Speakers  == {JaneSmith, Bob}

Fillers ==
    { <<" ">> \o JaneSmith \o <<" ", "p", "r", "e", "s", "e", "n", "t", "s">>,
      <<" ", "B", "O", "B", " ">> }

Segments ==
    { a \o d \o b \o f : <<a, d, b, f>> \in TimeTokens \X Separators \X TimeTokens \X Fillers }

RECURSIVE TextsOf(_)
TextsOf(n) ==
    IF n = 0 THEN { <<>> }
    ELSE LET shorter == TextsOf(n - 1)
         IN  shorter \cup { t \o g : <<t, g>> \in shorter \X Segments }

Texts == TextsOf(MaxMarkers)

\* the values of the names a run has not assigned
IdleHours   == /\ text = <<>> /\ speaker = <<>> /\ matches = <<>>
               /\ i = 0 /\ total = 0 /\ result = None
IdleAirfare == firm_economy_name = None /\ host_economy = None /\ airfare_auto = None
IdleLabor   == presentation_hours = None /\ category = None /\ labor_value = None
IdleTravel  == /\ airfare = None /\ travel_start = None /\ travel_end = None
               /\ lodging_rate = None /\ mie_rate = None
               /\ days = None /\ nights = None /\ travel_total = None
IdleAlloc   == /\ selected_engagements = None /\ total_value = None
               /\ per_engagement_value = None
IdleSubmit  == idx = 0 /\ records = <<>> /\ banner = None

\* a call extract_speaker_hours(text, speaker)
InitHours ==
    /\ pc = "hours_call"
    /\ text \in Texts
    /\ speaker \in Speakers
    /\ matches = <<>> /\ i = 0 /\ total = 0 /\ result = None
    /\ IdleAirfare /\ IdleLabor /\ IdleTravel /\ IdleAlloc /\ IdleSubmit

NextHours == HoursScan \/ HoursIterate \/ HoursReturn

SpecHours == InitHours /\ [][NextHours]_vars

-----------------------------------------------------------------------------
(***************************************************************************)
(* Region matrix and calculate_airfare                                     *)
(***************************************************************************)

ECONOMY_REGION ==
    [e \in {"United States", "Canada", "Mexico", "Chile", "Peru", "Japan", "Korea",
            "China", "Chinese Taipei", "Hong Kong", "Singapore", "Malaysia",
            "Thailand", "Vietnam", "Philippines", "Indonesia", "Brunei",
            "Australia", "New Zealand", "Papua New Guinea", "Russia"} |->
        CASE e \in {"United States", "Canada", "Mexico"} -> "North America"
          [] e \in {"Chile", "Peru"} -> "Latin America"
          [] e \in {"Japan", "Korea", "China", "Chinese Taipei", "Hong Kong"}
                -> "Northeast Asia"
          [] e \in {"Singapore", "Malaysia", "Thailand", "Vietnam", "Philippines",
                    "Indonesia", "Brunei"} -> "Southeast Asia"
          [] e \in {"Australia", "New Zealand", "Papua New Guinea"} -> "Oceania"
          [] e = "Russia" -> "Russia"]

\* airfare bands in USD, keyed by a pair of regions
REGION_BANDS ==
    ( <<"North America", "North America">>   :> 550 ) @@
    ( <<"North America", "Latin America">>   :> 700 ) @@
    ( <<"North America", "Northeast Asia">>  :> 1400 ) @@
    ( <<"North America", "Southeast Asia">>  :> 1400 ) @@
    ( <<"North America", "Oceania">>         :> 1500 ) @@
    ( <<"Latin America", "Latin America">>   :> 600 ) @@
    ( <<"Northeast Asia", "Northeast Asia">> :> 600 ) @@
    ( <<"Southeast Asia", "Southeast Asia">> :> 600 ) @@
    ( <<"Oceania", "Oceania">>               :> 700 ) @@
    ( <<"Northeast Asia", "Southeast Asia">> :> 900 ) @@
    ( <<"Southeast Asia", "Oceania">>        :> 900 ) @@
    ( <<"Northeast Asia", "Russia">>         :> 900 )

\* ECONOMY_REGION.get(name)
RegionOf(name) == IF name \in DOMAIN ECONOMY_REGION THEN ECONOMY_REGION[name] ELSE None

\* the airfare in USD
calculate_airfare(origin_economy, host) ==
    LET r1 == RegionOf(origin_economy)
        r2 == RegionOf(host)
    IN  IF r1 = None \/ r2 = None THEN 1400
        ELSE IF <<r1, r2>> \in DOMAIN REGION_BANDS THEN REGION_BANDS[<<r1, r2>>]
        ELSE IF <<r2, r1>> \in DOMAIN REGION_BANDS THEN REGION_BANDS[<<r2, r1>>]
        ELSE 1400

\* the names calculate_airfare is called with: every economy of the table, an
\* economy of the reference list the table lacks, and a firm with no economy
EconomyNames == DOMAIN ECONOMY_REGION \cup {"Atlantis", None}

InitAirfare ==
    /\ pc = "airfare_call"
    /\ firm_economy_name \in EconomyNames
    /\ host_economy \in EconomyNames
    /\ airfare_auto = None
    /\ IdleHours /\ IdleLabor /\ IdleTravel /\ IdleAlloc /\ IdleSubmit

\* airfare_auto = calculate_airfare(firm_economy_name, host_economy)
AirfareCall ==
    /\ pc = "airfare_call"
    /\ airfare_auto' = calculate_airfare(firm_economy_name, host_economy)
    /\ pc' = "airfare_done"
    /\ UNCHANGED <<firm_economy_name, host_economy>>
    /\ UNCHANGED <<hoursVars, laborVars, travelVars, allocVars, submitVars>>

NextAirfare == AirfareCall

SpecAirfare == InitAirfare /\ [][NextAirfare]_vars

-----------------------------------------------------------------------------
(***************************************************************************)
(* One run of the script: sections A to D and the submit loop.  A widget   *)
(* call returns the value the user has entered; the values offered here    *)
(* are whole dollars and quarter hours, which binary floating point holds  *)
(* exactly, so the sums and products below are the ones Python computes.   *)
(***************************************************************************)

MaxEngagements == 3

\* USD per hour
HOURLY_RATES ==
    [c \in {"Executive / Senior Leadership", "Senior Specialist"} |->
        IF c = "Executive / Senior Leadership" THEN 149 ELSE 131]

\* LABOR_MULTIPLIER = 3.5, in tenths
LABOR_MULTIPLIER == 35

\* whole dollars in mills
Usd(dollars) == 1000 * dollars

\* st.number_input("Presentation Hours", min_value=0.0, step=0.25), in quarter hours
PresentationHours == {0, 1, 8}

\* the firm's economy and the host economy picked in section B
FirmEconomies == {"United States", None}
HostEconomies == {"Australia", "Canada"}

\* st.number_input("Manual Airfare", min_value=0.0), in mills
ManualAirfares == {0, Usd(1000)}

\* st.date_input: day ordinals
TravelStarts == {2, 3}
TravelEnds   == {1, 3, 6}

\* st.number_input(..., min_value=0.0), in mills
LodgingRates == {0, Usd(150)}
MieRates     == {0, Usd(75)}

\* engagement_dict: the engagements offered by st.multiselect
Engagements == 1..MaxEngagements

\* st.multiselect returns the chosen options, each once, in the order chosen
Selections ==
    UNION { { q \in [1..n -> Engagements] : \A a, b \in 1..n : a # b => q[a] # q[b] }
            : n \in 0..MaxEngagements }

\* status codes of the Airtable API
StatusCodes == {200, 201, 422}

Max(a, b) == IF a >= b THEN a ELSE b

\* presentation_hours * LABOR_MULTIPLIER * HOURLY_RATES[category], in mills:
\* a quarter hour times a tenth times a dollar is 1/40 USD, 25 mills
LaborValue(hours, cat) == hours * LABOR_MULTIPLIER * HOURLY_RATES[cat] * 25

\* (travel_end - travel_start).days + 1
Days(start, end) == (end - start) + 1

\* max(days - 1, 0)
Nights(d) == Max(d - 1, 0)

\* airfare + lodging_rate * nights + mie_rate * days, in mills
TravelTotal(fare, lodging, mie, d, n) == fare + lodging * n + mie * d

\* the total divided by the number of engagements a second time
PerEngagementValueDividedTwice(tot, sel) ==
    IF Len(sel) > 0 THEN [num |-> tot, den |-> Len(sel) * Len(sel)]
    ELSE [num |-> 0, den |-> 1]

\* total_value / len(selected_engagements) if selected_engagements else 0,
\* a quotient of mills kept as numerator and denominator
PerEngagementValue(tot, sel) ==
    IF Len(sel) > 0 THEN [num |-> tot, den |-> Len(sel)] ELSE [num |-> 0, den |-> 1]

\* round(x, 2) of a quotient of mills, in cents.  round() rounds the binary
\* value to the nearest cent; the value lies exactly half way only when the
\* quotient is a multiple of 1/8 USD, which the division returns exactly,
\* and round() then picks the even cent.
Round2(x) ==
    LET d == 10 * x.den
        q == x.num \div d
        r == x.num % d
    IN  IF 2 * r < d THEN q
        ELSE IF 2 * r > d THEN q + 1
        ELSE IF q % 2 = 0 THEN q ELSE q + 1

\* the JSON body of one POST
Payload(per, engagement) == [Amount |-> Round2(per), Engagement |-> engagement]

InitScript ==
    /\ pc = "A"
    /\ IdleHours /\ IdleAirfare /\ IdleLabor /\ IdleTravel /\ IdleAlloc /\ IdleSubmit

\* Section A with no agenda uploaded (auto_hours = 0.0 is only the default of
\* the hours widget): presentation_hours, category, labor_value
SectionA ==
    /\ pc = "A"
    /\ presentation_hours' \in PresentationHours
    /\ category' \in DOMAIN HOURLY_RATES
    /\ labor_value' = LaborValue(presentation_hours', category')
    /\ pc' = "B"
    /\ UNCHANGED <<hoursVars, airfareVars, travelVars, allocVars, submitVars>>

\* Section B: airfare (automatic or overridden), dates, rates, travel_total
SectionB ==
    /\ pc = "B"
    /\ firm_economy_name' \in FirmEconomies
    /\ host_economy' \in HostEconomies
    /\ airfare_auto' = calculate_airfare(firm_economy_name', host_economy')
    /\ \/ airfare' \in ManualAirfares                   \* "Override airfare" ticked
       \/ airfare' = Usd(airfare_auto')
    /\ travel_start' \in TravelStarts
    /\ travel_end' \in TravelEnds
    /\ lodging_rate' \in LodgingRates
    /\ mie_rate' \in MieRates
    /\ days' = Days(travel_start', travel_end')
    /\ nights' = Nights(days')
    /\ travel_total' = TravelTotal(airfare', lodging_rate', mie_rate', days', nights')
    /\ pc' = "C"
    /\ UNCHANGED <<hoursVars, laborVars, allocVars, submitVars>>

\* Section C: the engagements, total_value, per_engagement_value
SectionC ==
    /\ pc = "C"
    /\ selected_engagements' \in Selections
    /\ total_value' = labor_value + travel_total
    /\ per_engagement_value' = PerEngagementValue(total_value', selected_engagements')
    /\ pc' = "D"
    /\ UNCHANGED <<hoursVars, airfareVars, laborVars, travelVars, submitVars>>

\* Section D shows the metrics; the confirmation box or the button is not set,
\* and the run ends without a submission
ReviewOnly ==
    /\ pc = "D"
    /\ pc' = "done"
    /\ UNCHANGED <<hoursVars, airfareVars, laborVars, travelVars, allocVars, submitVars>>

\* the confirmation box is ticked and "Submit to Airtable" pressed
SubmitStart ==
    /\ pc = "D"
    /\ idx' = 1
    /\ pc' = "submit"
    /\ UNCHANGED <<records, banner>>
    /\ UNCHANGED <<hoursVars, airfareVars, laborVars, travelVars, allocVars>>

\* the loop without st.stop(): a failed POST shows the error and the loop goes on
SubmitPostWithoutStop ==
    /\ pc = "submit"
    /\ idx <= Len(selected_engagements)
    /\ \E status \in StatusCodes :
          IF status \in {200, 201}
          THEN /\ records' = Append(records,
                                    Payload(per_engagement_value, selected_engagements[idx]))
               /\ idx' = idx + 1
               /\ UNCHANGED <<pc, banner>>
          ELSE /\ banner' = "error"
               /\ idx' = idx + 1
               /\ UNCHANGED <<pc, records>>
    /\ UNCHANGED <<hoursVars, airfareVars, laborVars, travelVars, allocVars>>

\* one iteration of  for engagement in selected_engagements: the POST and the
\* test of its status.  Airtable creates the record when it answers 200 or 201;
\* any other status shows the error and st.stop() ends the run.
SubmitPost ==
    /\ pc = "submit"
    /\ idx <= Len(selected_engagements)
    /\ \E status \in StatusCodes :
          IF status \in {200, 201}
          THEN /\ records' = Append(records,
                                    Payload(per_engagement_value, selected_engagements[idx]))
               /\ idx' = idx + 1
               /\ UNCHANGED <<pc, banner>>
          ELSE /\ banner' = "error"
               /\ pc' = "stopped"
               /\ UNCHANGED <<idx, records>>
    /\ UNCHANGED <<hoursVars, airfareVars, laborVars, travelVars, allocVars>>

\* the loop is over: st.success("OT5 record(s) successfully created.")
SubmitSuccess ==
    /\ pc = "submit"
    /\ idx > Len(selected_engagements)
    /\ banner' = "success"
    /\ pc' = "done"
    /\ UNCHANGED <<idx, records>>
    /\ UNCHANGED <<hoursVars, airfareVars, laborVars, travelVars, allocVars>>

Init == InitScript

Next ==
    \/ SectionA
    \/ SectionB
    \/ SectionC
    \/ ReviewOnly
    \/ SubmitStart
    \/ SubmitPost
    \/ SubmitSuccess

Spec == Init /\ [][Next]_vars

-----------------------------------------------------------------------------
(***************************************************************************)
(* Properties of the script run (Spec)                                     *)
(***************************************************************************)

\* policy constants of src/valuation/constants.py: the number of travel days
\* of a trip, and the share of M&IE paid on a travel day, in hundredths
STANDARD_TRAVEL_DAYS == 2
TRAVEL_DAY_MIE_RATE == 75

AfterA == pc \in {"B", "C", "D", "submit", "stopped", "done"}
AfterB == pc \in {"C", "D", "submit", "stopped", "done"}
AfterC == pc \in {"D", "submit", "stopped", "done"}

\* M&IE of a trip of d days with the travel days at the reduced share, in mills
MieSplit(mie, d) ==
    (mie * TRAVEL_DAY_MIE_RATE * STANDARD_TRAVEL_DAYS) \div 100
    + mie * Max(d - STANDARD_TRAVEL_DAYS, 0)

\* C1: for a trip with end_date >= start_date the trip total is airfare +
\* lodging_rate x nights + M&IE at 75% for the 2 travel days + M&IE in full
\* for the other max(days - 2, 0) days; airfare 1000, lodging 150, M&IE 75
\* and 5 days give 1937.50.
C1_TravelTotalSplitsMie ==
    (AfterB /\ travel_end >= travel_start) =>
        LET d == (travel_end - travel_start) + 1
        IN  /\ travel_total = airfare + lodging_rate * Max(d - 1, 0) + MieSplit(mie_rate, d)
            /\ (airfare = Usd(1000) /\ lodging_rate = Usd(150)
                /\ mie_rate = Usd(75) /\ d = 5) => travel_total = 1937500

\* C4: labor_value is hourly rate x presentation hours x 3.5 rounded to 2
\* decimals where it is computed, so it is a whole number of cents.
C4_LaborValueWholeCents ==
    AfterA =>
        /\ labor_value % 10 = 0
        /\ labor_value =
             10 * Round2([num |-> presentation_hours * LABOR_MULTIPLIER
                                    * HOURLY_RATES[category] * 25,
                          den |-> 1])

\* C8: when the travel end date is before the start date, or fewer than one
\* engagement is selected, the run stops with an explicit error: it goes on
\* to no total, no per-engagement amount, no record and no success message.
C8_PreconditionViolationsStopTheRun ==
    ( (AfterB /\ travel_end < travel_start)
      \/ (AfterC /\ Len(selected_engagements) < 1) )
    => (pc = "stopped" /\ banner = "error" /\ records = <<>>)

\* the sum of the Amount fields of the records, in cents
RECURSIVE SumAmounts(_)
SumAmounts(rs) == IF rs = <<>> THEN 0 ELSE Head(rs).Amount + SumAmounts(Tail(rs))

Abs(x) == IF x >= 0 THEN x ELSE -x

\* the run has shown the success message for a non-empty selection
Submitted ==
    pc = "done" /\ banner = "success" /\ Len(selected_engagements) >= 1

\* C3: a submission of N >= 1 engagements in which every POST succeeds
\* creates exactly one record per selected engagement, all with the same
\* Amount; that Amount is (labor_value + travel_total) / N to the nearest
\* cent (the total is divided by N once), so the N amounts add up to
\* labor_value + travel_total to within half a cent per record.
C3_OneRecordPerEngagementEvenSplit ==
    Submitted =>
        LET n == Len(selected_engagements)
            t == labor_value + travel_total
        IN  /\ Len(records) = n
            /\ \A e \in Engagements :
                 Cardinality({k \in 1..Len(records) : records[k].Engagement = e})
                   = IF \E k \in 1..n : selected_engagements[k] = e THEN 1 ELSE 0
            /\ \A k \in 1..n : records[k].Amount = records[1].Amount
            /\ \A k \in 1..n : Abs(10 * n * records[k].Amount - t) <= 5 * n
            /\ Abs(10 * SumAmounts(records) - t) <= 5 * n

\* a submission of three engagements whose amounts do not add up to the total
\* exactly: each record was rounded
C3_Witness ==
    /\ Submitted
    /\ Len(selected_engagements) = 3
    /\ Len(records) = 3
    /\ 10 * SumAmounts(records) # labor_value + travel_total

\* the engagements of the records created so far are the first ones selected
RecordsArePrefix ==
    (pc \in {"submit", "stopped", "done"}) =>
        /\ Len(records) <= Len(selected_engagements)
        /\ \A k \in 1..Len(records) : records[k].Engagement = selected_engagements[k]

SuccessMeansAll ==
    banner = "success" => Len(records) = Len(selected_engagements)

\* a step after the error banner does not exist, a failed POST ends the run,
\* and a step never removes or changes a record
HaltAndKeep ==
    /\ banner # "error"
    /\ banner' = "error" => (pc' = "stopped" /\ records' = records)
    /\ Len(records') >= Len(records)
    /\ SubSeq(records', 1, Len(records)) = records

\* C10: records are POSTed in selection order and the run halts at the first
\* status other than 200/201: the records created always belong to a prefix
\* of the selection, nothing happens after a failed POST, records created
\* before the failure stay, and the success message implies a record for
\* every selected engagement.
C10_HaltAtFirstFailure ==
    [](RecordsArePrefix /\ SuccessMeansAll) /\ [][HaltAndKeep]_vars

\* a POST failed after some, but not all, records were created
C10_Witness ==
    /\ pc = "stopped" /\ banner = "error"
    /\ Len(records) >= 1
    /\ Len(records) < Len(selected_engagements)

-----------------------------------------------------------------------------
(***************************************************************************)
(* Properties of calculate_airfare (SpecAirfare)                           *)
(***************************************************************************)

\* C9: calculate_airfare returns a value for every pair of names, and when
\* either economy has no region it returns the most expensive tier: no pair
\* of known economies costs more.
C9_UnknownRegionMostExpensive ==
    (pc = "airfare_done"
     /\ (RegionOf(firm_economy_name) = None \/ RegionOf(host_economy) = None))
    => \A a, b \in DOMAIN ECONOMY_REGION : calculate_airfare(a, b) <= airfare_auto

-----------------------------------------------------------------------------
(***************************************************************************)
(* Properties of extract_speaker_hours (SpecHours)                         *)
(***************************************************************************)

\* the minutes, as timedelta.seconds gives them, of the markers k.. whose
\* block holds the speaker
RECURSIVE SpeakerMinutes(_, _, _, _)
SpeakerMinutes(s, sp, ms, k) ==
    IF k > Len(ms) THEN 0
    ELSE (IF SpeakerInBlock(s, sp, ms, k)
          THEN TimedeltaMinutes(parse_time(Group1(s, ms[k])), parse_time(Group2(s, ms[k])))
          ELSE 0)
         + SpeakerMinutes(s, sp, ms, k + 1)

\* C2: for every text and speaker the function returns the sum, rounded to 2
\* decimals, of the durations of exactly the markers whose span (to the next
\* marker or the end of the text) holds the name, whatever its case; with no
\* such span it returns 0.0.
C2_SumOfSpeakerSpans ==
    /\ pc # "hours_raised"
    /\ pc = "hours_done" =>
         result = RoundHours(SpeakerMinutes(text, speaker, matches, 1))

\* "10:00-11:00 Jane Smith presents"
Scenario1Text ==
    Tok1000 \o <<"-">> \o Tok1100
    \o <<" ">> \o JaneSmith \o <<" ", "p", "r", "e", "s", "e", "n", "t", "s">>

\* C5: a range in 24-hour notation with no am/pm is an interval: the text
\* "10:00-11:00 Jane Smith presents" gives Jane Smith 1.0 hour.
C5_TwentyFourHourRange ==
    (pc = "hours_done" /\ text = Scenario1Text /\ speaker = JaneSmith) => result = 100

\* hour and minute written in a token of the scan pattern
ClockHour(tok) ==
    IF tok[2] = ":" THEN DigitVal(tok[1]) ELSE 10 * DigitVal(tok[1]) + DigitVal(tok[2])
ClockMinute(tok) ==
    LET c == IF tok[2] = ":" THEN 2 ELSE 3
    IN  10 * DigitVal(tok[c + 1]) + DigitVal(tok[c + 2])

\* a 12-hour clock time
ValidClock(tok) == ClockHour(tok) \in 1..12 /\ ClockMinute(tok) \in 0..59

WellFormed(s, m) == ValidClock(Group1(s, m)) /\ ValidClock(Group2(s, m))

\* the token of a marker at which parse_time raises: the start, else the end
RaisingToken(s, m) ==
    IF parse_time(Group1(s, m)) = ValueError THEN Group1(s, m) ELSE Group2(s, m)

\* the minutes of the markers k.. that are well formed and hold the speaker
RECURSIVE WellFormedMinutes(_, _, _, _)
WellFormedMinutes(s, sp, ms, k) ==
    IF k > Len(ms) THEN 0
    ELSE (IF SpeakerInBlock(s, sp, ms, k) /\ WellFormed(s, ms[k])
             /\ parse_time(Group1(s, ms[k])) # ValueError
             /\ parse_time(Group2(s, ms[k])) # ValueError
          THEN TimedeltaMinutes(parse_time(Group1(s, ms[k])), parse_time(Group2(s, ms[k])))
          ELSE 0)
         + WellFormedMinutes(s, sp, ms, k + 1)

\* C6: a marker that matches the scan pattern but whose start or end is no
\* clock time (hour 13 or 0, minutes 75) is skipped: it raises no error, and
\* the result is the sum over the well-formed markers that hold the speaker.
C6_MalformedMarkerSkipped ==
    /\ pc = "hours_raised" => ValidClock(RaisingToken(text, matches[i]))
    /\ pc = "hours_done" =>
         result = RoundHours(WellFormedMinutes(text, speaker, matches, 1))

\* end - start, the end moved 12 hours on when it is before the start
Shift12Minutes(s, e) == IF e < s THEN (e + 720) - s ELSE e - s

\* the minutes of the markers k.. whose block holds the speaker, with the
\* 12-hour shift
RECURSIVE Shift12SpeakerMinutes(_, _, _, _)
Shift12SpeakerMinutes(s, sp, ms, k) ==
    IF k > Len(ms) THEN 0
    ELSE (IF SpeakerInBlock(s, sp, ms, k)
          THEN Shift12Minutes(parse_time(Group1(s, ms[k])), parse_time(Group2(s, ms[k])))
          ELSE 0)
         + Shift12SpeakerMinutes(s, sp, ms, k + 1)

\* C7: a range whose end is earlier than its start counts end + 12h - start,
\* and no range counts a negative duration.
C7_RolloverShiftsTwelveHours ==
    pc = "hours_done" =>
        /\ total = Shift12SpeakerMinutes(text, speaker, matches, 1)
        /\ total >= 0

====
